---------------------------- MODULE Spec2Model ----------------------------
(***************************************************************************)
(* Session lifecycle and fault recovery of stealth-browser-mcp             *)
(* (src/human-behavior.ts).                                                *)
(*                                                                         *)
(* The program is a single-threaded event loop.  Every `await` of a tool   *)
(* handler, of the _handleRequest patch, of safeExecute and of the process *)
(* level handlers is a scheduling point: the code between two awaits runs  *)
(* atomically and is one action here.  The browser driver (Playwright) is  *)
(* the environment: every awaited driver call may succeed, may fail with   *)
(* an error whose message does or does not match the timeout signature,    *)
(* or may stay pending for ever.                                           *)
(*                                                                         *)
(* A browser is identified by the handler execution (slot) that launched   *)
(* it: each handler execution launches at most one browser.  A page is     *)
(* identified by the browser it was opened from.  0 stands for null.       *)
(***************************************************************************)
EXTENDS Integers, Sequences, FiniteSets, TLC

\* Number of tool requests dispatched in one run.
MaxCalls == 2

\* Largest `retries` argument given to safeExecute.
MaxRetries == 2

MaxSlots == IF MaxCalls > MaxRetries THEN MaxCalls ELSE MaxRetries

\* Handler executions; slot h launches browser h.
Calls == 1..MaxSlots

\* The tool handlers: screenshot, browser_snapshot (like it: browser_click,
\* browser_hover, ...: acquire, then driver calls on the page) and
\* browser_navigate.
Tools == {"screenshot", "snapshot", "navigate"}

\* Message classes of an error thrown by a driver call.
ErrKinds == {"timeout", "other"}

\* Beside a driver rejection a handler can fail with "typeError" (a method
\* called on a null handle) and with "creation" (acquire's own
\* `throw new Error('Не удалось создать браузер или страницу')`).
HandlerErrKinds == ErrKinds \cup {"typeError", "creation"}

\* browser_navigate: `const maxAttempts = 3`.
maxAttempts == 3

\* Largest absolute value of an index given to getProfileByIndex.
MaxIndex == 7

\* Largest bound, in ms, given to humanDelay.
MaxDelayMs == 5

\* The finite values of the Box-Muller variate z0 are the multiples of
\* 1/ZDen between -ZMax/ZDen and ZMax/ZDen.
ZMax == 6

ZDen == 2

\* Longest text given to humanType, and longest initial content of a field.
MaxLen == 2

\* Math.random() returns one of the multiples of 1/RDen in [0, 1).
RDen == 5

\* `page.viewportSize() || { width: 1024, height: 768 }`: the fallback.
DefaultWidth == 1024

\* The width of a viewport that is set.
ViewportWidth == 1280

\* The widths page.viewportSize() reports; 0 stands for null.
ViewportWidths == {0, ViewportWidth}

\* Longest duration, in ms, given to randomMouseMovements.
MaxDuration == 120

\* The durations given to randomMouseMovements.
Durations == {-1, 0, 1, MaxDuration \div 2, MaxDuration}

\* The time, in ms, a page.mouse.move takes: none, or MoveMs.
MoveMs == 7

\* The time, in ms, a timer fires after it is due: none, or LateMs.
LateMs == 3

\* humanScroll: `page.viewportSize()?.height || 800`: the fallback.
DefaultScrollHeight == 800

\* The height of a viewport that is set.
ViewportHeight == 720

\* The heights page.viewportSize() reports; 0 stands for null.
ViewportHeights == {0, ViewportHeight}

\* The bounding boxes of the target element (x and width in px): one at
\* the left edge of the page and one inside it.
Boxes == {[x |-> 0, width |-> 8], [x |-> 100, width |-> 40]}

\* The characters of a text: a letter and a punctuation mark.
Chars == {"a", ","}

Texts == UNION {[1..n -> Chars] : n \in 0..MaxLen}

VARIABLES
  globalBrowser,  \* let globalBrowser: Browser | null
  globalPage,     \* let globalPage: Page | null  (the browser it was opened from)
  lastSnapshot,   \* let lastSnapshot: any        (TRUE: a snapshot is cached)
  bstate,         \* driver: each browser is "none" (not launched), "open", "closed"
  bgClose,        \* driver: close() calls issued and not awaited (unhandledRejection)
  tool,           \* handler execution: the tool it runs ("none" before it starts)
  pc,             \* handler execution: the await it is suspended at
  lb,             \* handler execution: its local `browser`
  lp,             \* handler execution: its local `page`
  pend,           \* handler execution: receiver of the driver call it awaits
  herr,           \* screenshot: the outcome kept while `finally` runs
  res,            \* handler execution: how its promise settled
  attempts,       \* browser_navigate: `attempts`, the failed page.goto calls
  solo,           \* history: no two handler executions ever overlapped, and no
                  \* unhandledRejection cleanup ran
  rq,             \* _handleRequest patch: position of each request
  rpend,          \* _handleRequest patch: receiver of the close() it awaits
  resp,           \* _handleRequest patch: what the request answered
  se,             \* safeExecute: its locals
  slog,           \* history: safeExecute's starts of fn and its backoff waits
  currentProfileIndex,  \* let currentProfileIndex = 0
  ppc,            \* profile selection: position of each call
  psel,           \* profile selection: what each call selected
  pord,           \* history: the counter values given to non-random selections
  qIndex,         \* getProfileByIndex called on its own: the argument
  qResult,        \* getProfileByIndex called on its own: the value returned
  dArgs,          \* humanDelay: its arguments and the value random() returned
  dDelay,         \* humanDelay: `delay`, the value given to setTimeout
  ty,             \* humanType: `text`, the await it is at, the character index
  field,          \* driver: the input field's content and whether it is selected
  tlog,           \* history: humanType's warning, key injections and pauses
  kd,             \* humanType: `avgTypingSpeed` and, per character, `delay` and the pause
  mv,             \* humanMouseMovement and humanClick: the await they are at, their locals
  mlog,           \* history: the cursor moves, pauses and clicks issued
  sc,             \* humanScroll: the await it is at, its locals, the scrolls issued
  wd              \* randomMouseMovements: the await it is at, its locals, the time elapsed

progVars  == <<globalBrowser, globalPage, lastSnapshot, bstate, bgClose>>
hVars     == <<tool, pc, lb, lp, pend, herr, res, attempts>>
histVars  == <<solo>>
reqVars   == <<rq, rpend, resp>>
safeVars  == <<se, slog>>
profVars  == <<currentProfileIndex, ppc, psel, pord, qIndex, qResult>>
delayVars == <<dArgs, dDelay>>
typeVars  == <<ty, field, tlog>>
keyVars   == <<kd>>
moveVars  == <<mv, mlog>>
scrollVars == <<sc>>
wanderVars == <<wd>>
gestVars  == <<keyVars, moveVars, scrollVars, wanderVars>>
libVars   == <<profVars, delayVars, typeVars, gestVars>>
vars      == <<progVars, hVars, histVars, reqVars, safeVars, libVars>>

NoError == <<"none", 0>>

\* JavaScript numbers: a finite rational num/den (den > 0), an infinity or
\* NaN.
Fin(n, d) == [kind |-> "fin", num |-> n, den |-> d]

PosInf == [kind |-> "inf", num |-> 1, den |-> 1]

NegInf == [kind |-> "inf", num |-> -1, den |-> 1]

NaN == [kind |-> "nan", num |-> 0, den |-> 1]

SeInit ==
  [pc |-> "idle", attempt |-> 0, retries |-> 0, fn |-> "none",
   lastError |-> NoError, pend |-> 0, delayMs |-> 0, starts |-> 0,
   closeErrors |-> 0,
   out |-> "none", thrown |-> [wrapped |-> FALSE, err |-> NoError]]

\* A call that has not selected a profile.
\* randomMouseMovements before it is called. `elapsed` is Date.now() -
\* startTime in ms, `moves` the number of page.mouse.move calls issued.
WdInit ==
  [pc |-> "idle", duration |-> 0, elapsed |-> 0, speed |-> 0, moves |-> 0]

\* humanScroll before it is called. `reported` is the height
\* page.viewportSize() reports (0 for null), `distance` the argument of the
\* last window.scrollBy as a numerator over 4 * RDen, `issued` the number
\* of scrollBy calls.
ScInit ==
  [pc |-> "idle", reported |-> 0, viewportHeight |-> 0, scrollCount |-> 0,
   i |-> 0, distance |-> 0, issued |-> 0]

\* humanMouseMovement and humanClick before they are called. Lengths are in
\* px; startX and targetX are numerators over 4 * RDen, moveX (the point on
\* the straight line) over 4 * RDen * steps, jitterX over RDen.
MvInit ==
  [pc |-> "idle", caller |-> "none", startX |-> 0, targetX |-> 0, steps |-> 0,
   i |-> 0, jitterFactor |-> [milli |-> 0, sinPi |-> 0],
   jitterX |-> [milli |-> 0, sinPi |-> 0], moveX |-> 0]

NoSel == [random |-> FALSE, index |-> -1, profile |-> "none"]

InitSession ==
  /\ globalBrowser = 0
  /\ globalPage = 0
  /\ lastSnapshot = FALSE
  /\ bstate = [b \in Calls |-> "none"]
  /\ bgClose = {}
  /\ tool = [h \in Calls |-> "none"]
  /\ pc = [h \in Calls |-> "idle"]
  /\ lb = [h \in Calls |-> 0]
  /\ lp = [h \in Calls |-> 0]
  /\ attempts = [h \in Calls |-> 0]
  /\ pend = [h \in Calls |-> 0]
  /\ herr = [h \in Calls |-> "none"]
  /\ res = [h \in Calls |-> "none"]
  /\ solo = TRUE
  /\ rq = [r \in Calls |-> "idle"]
  /\ rpend = [r \in Calls |-> 0]
  /\ resp = [r \in Calls |-> "none"]
  /\ se = SeInit
  /\ slog = <<>>
  /\ ppc = [h \in Calls |-> "idle"]
  /\ psel = [h \in Calls |-> NoSel]
  /\ pord = <<>>
  /\ qIndex = 0
  /\ qResult = "none"
  /\ dArgs = [called |-> FALSE, min |-> 0, max |-> 0, z0 |-> Fin(0, 1)]
  /\ dDelay = Fin(0, 1)
  /\ ty = [pc |-> "idle", text |-> <<>>, i |-> 0]
  /\ field = [content |-> <<>>, selected |-> FALSE]
  /\ tlog = <<>>
  /\ kd = [speed |-> 0, chars |-> <<>>]
  /\ mv = MvInit
  /\ mlog = <<>>
  /\ sc = ScInit
  /\ wd = WdInit

\* The state after the module is loaded.
Init == InitSession /\ currentProfileIndex = 0

----------------------------------------------------------------------------
(* The driver *)

\* browser.close() resolved: an open browser is closed; closing a closed
\* browser resolves and changes nothing.
Closed(bs, b) == IF b = 0 THEN bs ELSE [bs EXCEPT ![b] = "closed"]

\* A driver call on a browser, or on a page of it, can succeed only while the
\* browser is open.
Usable(b) == b # 0 /\ bstate[b] = "open"

InFlight(h) == pc[h] \notin {"idle", "done"}

Overlap == \E g, h \in Calls : g # h /\ InFlight(g) /\ InFlight(h)

----------------------------------------------------------------------------
(* getOrCreateBrowserAndPage *)

\* `if (globalBrowser)`: an existing session is closed before the launch.
AcqNeedsCloseNever(gb) == FALSE

AcqNeedsClose(gb) == gb # 0

\* The synchronous start of a handler, up to its first await.  screenshot
\* and browser_snapshot enter getOrCreateBrowserAndPage; browser_navigate
\* runs its own copy of the close-and-launch sequence.
HStart(h, t) ==
  /\ pc[h] = "idle"
  /\ tool' = [tool EXCEPT ![h] = t]
  /\ IF AcqNeedsClose(globalBrowser)
       THEN /\ pend' = [pend EXCEPT ![h] = globalBrowser]
            /\ pc' = [pc EXCEPT ![h] = IF t = "navigate" THEN "navClose" ELSE "acqClose"]
       ELSE /\ pend' = pend
            /\ pc' = [pc EXCEPT ![h] = IF t = "navigate" THEN "navLaunch" ELSE "acqLaunch"]
  /\ solo' = (solo /\ ~Overlap')
  /\ UNCHANGED <<lb, lp, herr, res, attempts>>

\* The handler's promise settles; its locals other than the pair acquire
\* returned go out of scope.
Settle(h, k) ==
  /\ pc' = [pc EXCEPT ![h] = "done"]
  /\ res' = [res EXCEPT ![h] = k]
  /\ herr' = [herr EXCEPT ![h] = "none"]
  /\ pend' = [pend EXCEPT ![h] = 0]

\* A handler's catch.  screenshot's `finally` closes its local browser,
\* which is set once acquire has returned; every other handler rethrows.
HandlerFail(h, k) ==
  IF tool[h] = "screenshot" /\ lb[h] # 0
    THEN /\ pc' = [pc EXCEPT ![h] = "finClose"]
         /\ herr' = [herr EXCEPT ![h] = k]
         /\ pend' = [pend EXCEPT ![h] = 0]
         /\ res' = res
    ELSE Settle(h, k)

AwaitPcs ==
  {"acqClose", "acqLaunch", "acqNewPage", "acqViewport", "acqInit",
   "acqHeaders", "useDriver", "useTitle", "navClose", "navLaunch",
   "navContext", "navNewPage", "navAfter"}

\* The awaited driver call rejects.
AwaitFail(h) ==
  /\ pc[h] \in AwaitPcs
  /\ \E k \in ErrKinds : HandlerFail(h, k)
  /\ UNCHANGED <<progVars, tool, attempts, lb, lp, histVars, reqVars, safeVars>>
  /\ UNCHANGED libVars

\* `await globalBrowser.close()` resolved; the handles are nulled and
\* chromium.launch is called.
AcqCloseDone(h) ==
  /\ pc[h] = "acqClose"
  /\ bstate' = Closed(bstate, pend[h])
  /\ globalBrowser' = 0
  /\ globalPage' = 0
  /\ pc' = [pc EXCEPT ![h] = "acqLaunch"]
  /\ pend' = [pend EXCEPT ![h] = 0]
  /\ UNCHANGED <<lastSnapshot, bgClose, tool, attempts, lb, lp, herr, res,
                 histVars, reqVars, safeVars>>
  /\ UNCHANGED libVars

\* `globalBrowser = await chromium.launch(...)` resolved; newPage is called
\* on the new browser.
AcqLaunchDone(h) ==
  /\ pc[h] = "acqLaunch"
  /\ bstate' = [bstate EXCEPT ![h] = "open"]
  /\ globalBrowser' = h
  /\ pend' = [pend EXCEPT ![h] = h]
  /\ pc' = [pc EXCEPT ![h] = "acqNewPage"]
  /\ UNCHANGED <<globalPage, lastSnapshot, bgClose, tool, attempts, lb, lp, herr, res,
                 histVars, reqVars, safeVars>>
  /\ UNCHANGED libVars

\* `globalPage = await globalBrowser.newPage()` resolved; setViewportSize is
\* called on the new page.
AcqNewPageDone(h) ==
  /\ pc[h] = "acqNewPage"
  /\ Usable(pend[h])
  /\ globalPage' = pend[h]
  /\ pc' = [pc EXCEPT ![h] = "acqViewport"]
  /\ UNCHANGED <<globalBrowser, lastSnapshot, bstate, bgClose, tool, attempts, lb, lp,
                 pend, herr, res, histVars, reqVars, safeVars>>
  /\ UNCHANGED libVars

\* setViewportSize, then addInitScript resolved: the next call reads
\* globalPage again; calling a method of a null globalPage throws a
\* TypeError, before the null check at the end is reached.
AcqPageStepDone(h) ==
  /\ pc[h] \in {"acqViewport", "acqInit"}
  /\ Usable(pend[h])
  /\ IF globalPage = 0
       THEN HandlerFail(h, "typeError")
       ELSE /\ pend' = [pend EXCEPT ![h] = globalPage]
            /\ pc' = [pc EXCEPT ![h] =
                        IF pc[h] = "acqViewport" THEN "acqInit" ELSE "acqHeaders"]
            /\ UNCHANGED <<herr, res>>
  /\ UNCHANGED <<progVars, tool, attempts, lb, lp, histVars, reqVars, safeVars>>
  /\ UNCHANGED libVars

\* setExtraHTTPHeaders resolved: the null check, then
\* `return { browser: globalBrowser, page: globalPage }`; the tool calls the
\* driver on the returned page.
AcqReturn(h) ==
  /\ pc[h] = "acqHeaders"
  /\ Usable(pend[h])
  /\ IF globalBrowser = 0 \/ globalPage = 0
       THEN /\ HandlerFail(h, "creation")
            /\ UNCHANGED <<lb, lp>>
       ELSE /\ lb' = [lb EXCEPT ![h] = globalBrowser]
            /\ lp' = [lp EXCEPT ![h] = globalPage]
            /\ pc' = [pc EXCEPT ![h] = "useDriver"]
            /\ pend' = [pend EXCEPT ![h] = 0]
            /\ UNCHANGED <<herr, res>>
  /\ UNCHANGED <<progVars, tool, attempts, histVars, reqVars, safeVars>>
  /\ UNCHANGED libVars

----------------------------------------------------------------------------
(* The tool handlers after acquire *)

\* The driver calls on the handler's own page resolved (screenshot: goto,
\* the mouse and scroll simulation, screenshot; browser_snapshot:
\* accessibility.snapshot; browser_navigate: the headers, the init script
\* and the delay before its goto loop).  None of them reads the session
\* globals.
UseDriverDone(h) ==
  /\ pc[h] = "useDriver"
  /\ Usable(lp[h])
  /\ CASE tool[h] = "snapshot" ->
            /\ lastSnapshot' = TRUE
            /\ pc' = [pc EXCEPT ![h] = "useTitle"]
            /\ UNCHANGED <<herr, res, pend>>
       [] tool[h] = "screenshot" ->
            /\ pc' = [pc EXCEPT ![h] = "finClose"]
            /\ herr' = [herr EXCEPT ![h] = "ok"]
            /\ UNCHANGED <<lastSnapshot, res, pend>>
       [] OTHER ->
            /\ pc' = [pc EXCEPT ![h] = "navGoto"]
            /\ UNCHANGED <<lastSnapshot, herr, res, pend>>
  /\ UNCHANGED <<globalBrowser, globalPage, bstate, bgClose, tool, attempts, lb, lp,
                 histVars, reqVars, safeVars>>
  /\ UNCHANGED libVars

\* browser_snapshot: `await page.title()` resolved, the result is returned.
UseTitleDone(h) ==
  /\ pc[h] = "useTitle"
  /\ Usable(lp[h])
  /\ Settle(h, "ok")
  /\ UNCHANGED <<progVars, tool, attempts, lb, lp, histVars, reqVars, safeVars>>
  /\ UNCHANGED libVars

\* screenshot's finally: `await browser.close()` resolved, or rejected and
\* logged; the handler then settles with the outcome it had.
FinCloseDone(h) ==
  /\ pc[h] = "finClose"
  /\ \/ bstate' = Closed(bstate, lb[h])
     \/ bstate' = bstate
  /\ Settle(h, herr[h])
  /\ UNCHANGED <<globalBrowser, globalPage, lastSnapshot, bgClose, tool, attempts, lb,
                 lp, histVars, reqVars, safeVars>>
  /\ UNCHANGED libVars

----------------------------------------------------------------------------
(* browser_navigate *)

\* `await globalBrowser.close()` resolved; the handles are nulled and
\* chromium.launch is called.
NavCloseDone(h) ==
  /\ pc[h] = "navClose"
  /\ bstate' = Closed(bstate, pend[h])
  /\ globalBrowser' = 0
  /\ globalPage' = 0
  /\ pc' = [pc EXCEPT ![h] = "navLaunch"]
  /\ pend' = [pend EXCEPT ![h] = 0]
  /\ UNCHANGED <<lastSnapshot, bgClose, tool, attempts, lb, lp, herr, res,
                 histVars, reqVars, safeVars>>
  /\ UNCHANGED libVars

\* `browser = await chromium.launch(...)` resolved; globalBrowser = browser.
NavLaunchDone(h) ==
  /\ pc[h] = "navLaunch"
  /\ bstate' = [bstate EXCEPT ![h] = "open"]
  /\ lb' = [lb EXCEPT ![h] = h]
  /\ globalBrowser' = h
  /\ pc' = [pc EXCEPT ![h] = "navContext"]
  /\ UNCHANGED <<globalPage, lastSnapshot, bgClose, tool, attempts, lp, pend, herr, res,
                 histVars, reqVars, safeVars>>
  /\ UNCHANGED libVars

\* `await browser.newContext(...)` resolved.
NavContextDone(h) ==
  /\ pc[h] = "navContext"
  /\ Usable(lb[h])
  /\ pc' = [pc EXCEPT ![h] = "navNewPage"]
  /\ UNCHANGED <<progVars, tool, attempts, lb, lp, pend, herr, res, histVars, reqVars,
                 safeVars>>
  /\ UNCHANGED libVars

\* `page = await context.newPage()` resolved; globalPage = page.
NavNewPageDone(h) ==
  /\ pc[h] = "navNewPage"
  /\ Usable(lb[h])
  /\ lp' = [lp EXCEPT ![h] = lb[h]]
  /\ globalPage' = lb[h]
  /\ pc' = [pc EXCEPT ![h] = "useDriver"]
  /\ UNCHANGED <<globalBrowser, lastSnapshot, bstate, bgClose, tool, attempts, lb, pend,
                 herr, res, histVars, reqVars, safeVars>>
  /\ UNCHANGED libVars

\* One step of a handler execution that has started.
\* browser_navigate: `await page.goto(...)` resolved inside the loop: break.
\* `attempts` is below maxAttempts, so the test after the loop does not throw.
NavGotoDone(h) ==
  /\ pc[h] = "navGoto"
  /\ Usable(lp[h])
  /\ pc' = [pc EXCEPT ![h] = "navAfter"]
  /\ attempts' = [attempts EXCEPT ![h] = 0]
  /\ UNCHANGED <<progVars, tool, lb, lp, pend, herr, res, histVars, reqVars,
                 safeVars>>
  /\ UNCHANGED libVars

\* The handler-level retry test of browser_navigate's goto loop.
NavRetries(a) == a < maxAttempts

\* browser_navigate: `await page.goto(...)` rejected inside the loop: the
\* catch counts the attempt; with attempts left it waits one second, else the
\* loop ends and `throw lastError` reaches the handler's catch.
NavGotoFail(h) ==
  /\ pc[h] = "navGoto"
  /\ IF NavRetries(attempts[h] + 1)
       THEN /\ attempts' = [attempts EXCEPT ![h] = attempts[h] + 1]
            /\ pc' = [pc EXCEPT ![h] = "navWait"]
            /\ UNCHANGED <<pend, herr, res>>
       ELSE /\ attempts' = [attempts EXCEPT ![h] = 0]
            /\ \E k \in ErrKinds : HandlerFail(h, k)
  /\ UNCHANGED <<progVars, tool, lb, lp, histVars, reqVars, safeVars>>
  /\ UNCHANGED libVars

\* browser_navigate: the one-second pause before the next goto ended.
NavWaitDone(h) ==
  /\ pc[h] = "navWait"
  /\ pc' = [pc EXCEPT ![h] = "navGoto"]
  /\ UNCHANGED <<progVars, tool, attempts, lb, lp, pend, herr, res, histVars,
                 reqVars, safeVars>>
  /\ UNCHANGED libVars

\* browser_navigate: the page interaction, the evaluate calls, cookies() and
\* title() resolved; the result is returned.  The browser stays open.
NavAfterDone(h) ==
  /\ pc[h] = "navAfter"
  /\ Usable(lp[h])
  /\ Settle(h, "ok")
  /\ UNCHANGED <<progVars, tool, attempts, lb, lp, histVars, reqVars,
                 safeVars>>
  /\ UNCHANGED libVars

HandlerStep ==
  \E h \in Calls :
    \/ AwaitFail(h)
    \/ AcqCloseDone(h)
    \/ AcqLaunchDone(h)
    \/ AcqNewPageDone(h)
    \/ AcqPageStepDone(h)
    \/ AcqReturn(h)
    \/ UseDriverDone(h)
    \/ UseTitleDone(h)
    \/ FinCloseDone(h)
    \/ NavCloseDone(h)
    \/ NavLaunchDone(h)
    \/ NavContextDone(h)
    \/ NavNewPageDone(h)
    \/ NavGotoDone(h)
    \/ NavGotoFail(h)
    \/ NavWaitDone(h)
    \/ NavAfterDone(h)

----------------------------------------------------------------------------
(* The teardown shared by safeExecute, the _handleRequest patch and the    *)
(* unhandledRejection handler                                              *)

\* `if (globalBrowser)`: close() is issued only for a non-null handle.
TeardownNeedsCloseAlways(gb) == TRUE

TeardownNeedsClose(gb) == gb # 0

\* The classification holding for every error.
IsTimeoutErrorAlways(k) == TRUE

\* `error.message.includes('Таймаут') || error.message.includes('timed out')`:
\* the guards' own timer errors and the driver errors of class "timeout".
IsTimeoutError(k) == k \in {"guardTimeout", "timeout"}

----------------------------------------------------------------------------
(* The _handleRequest patch *)

\* A request arrives: the patch starts the original handler, which runs the
\* tool, and races it against a 45 s timer.  Requests take the slots in
\* order.  `serial`: the RPC boundary dispatches a request only when every
\* earlier request has been answered.
Dispatch(r, t, serial) ==
  /\ r <= MaxCalls
  /\ rq[r] = "idle"
  /\ \A q \in Calls : q < r => rq[q] # "idle"
  /\ serial => \A q \in Calls : rq[q] \in {"idle", "done"}
  /\ rq' = [rq EXCEPT ![r] = "racing"]
  /\ HStart(r, t)
  /\ UNCHANGED <<progVars, rpend, resp, safeVars>>
  /\ UNCHANGED libVars

\* The original handler resolved first: its result is the answer.
ReqResolve(r) ==
  /\ rq[r] = "racing"
  /\ res[r] = "ok"
  /\ rq' = [rq EXCEPT ![r] = "done"]
  /\ resp' = [resp EXCEPT ![r] = "result"]
  /\ UNCHANGED <<progVars, hVars, histVars, rpend, safeVars>>
  /\ UNCHANGED libVars

\* The catch block: the timer fired while the handler was pending, or the
\* handler rejected.  A timeout-classified error starts the teardown; any
\* other error is rethrown.
ReqCatch(r) ==
  /\ rq[r] = "racing"
  /\ res[r] # "ok"
  /\ LET k == IF res[r] = "none" THEN "guardTimeout" ELSE res[r] IN
       IF IsTimeoutError(k)
         THEN IF TeardownNeedsClose(globalBrowser)
                THEN /\ rpend' = [rpend EXCEPT ![r] = globalBrowser]
                     /\ rq' = [rq EXCEPT ![r] = "closing"]
                     /\ UNCHANGED <<lastSnapshot, resp>>
                ELSE /\ lastSnapshot' = FALSE
                     /\ rq' = [rq EXCEPT ![r] = "done"]
                     /\ resp' = [resp EXCEPT ![r] = "timeoutPayload"]
                     /\ UNCHANGED rpend
         ELSE /\ rq' = [rq EXCEPT ![r] = "done"]
              /\ resp' = [resp EXCEPT ![r] = "error"]
              /\ UNCHANGED <<lastSnapshot, rpend>>
  /\ UNCHANGED <<globalBrowser, globalPage, bstate, bgClose, hVars, histVars,
                 safeVars>>
  /\ UNCHANGED libVars

\* `await globalBrowser.close()` of the teardown resolved: the handles are
\* nulled; or it rejected: the error is logged.  Either way the snapshot is
\* dropped and the timeout message is returned as a result.
ReqCloseDone(r) ==
  /\ rq[r] = "closing"
  /\ \/ /\ rpend[r] # 0
        /\ bstate' = Closed(bstate, rpend[r])
        /\ globalBrowser' = 0
        /\ globalPage' = 0
     \/ UNCHANGED <<bstate, globalBrowser, globalPage>>
  /\ lastSnapshot' = FALSE
  /\ rq' = [rq EXCEPT ![r] = "done"]
  /\ resp' = [resp EXCEPT ![r] = "timeoutPayload"]
  /\ UNCHANGED <<bgClose, hVars, histVars, rpend, safeVars>>
  /\ UNCHANGED libVars

----------------------------------------------------------------------------
(* process.on('unhandledRejection') *)

\* A rejection with code -32001 reaches the process: close() is called on
\* the browser without being awaited, the handles are nulled at once and
\* the snapshot is dropped.
UnhandledRejection ==
  /\ IF globalBrowser # 0
       THEN /\ bgClose' = bgClose \cup {globalBrowser}
            /\ globalBrowser' = 0
            /\ globalPage' = 0
       ELSE UNCHANGED <<bgClose, globalBrowser, globalPage>>
  /\ lastSnapshot' = FALSE
  /\ solo' = FALSE
  /\ UNCHANGED <<bstate, hVars, reqVars, safeVars>>
  /\ UNCHANGED libVars

\* The close() of the unhandledRejection handler resolved, or rejected and
\* was logged by its .catch.
BgCloseDone(b) ==
  /\ b \in bgClose
  /\ bgClose' = bgClose \ {b}
  /\ \/ bstate' = Closed(bstate, b)
     \/ bstate' = bstate
  /\ UNCHANGED <<globalBrowser, globalPage, lastSnapshot, hVars, histVars,
                 reqVars, safeVars>>
  /\ UNCHANGED libVars

----------------------------------------------------------------------------
(* safeExecute *)

\* `const delayMs = 1000 * (attempt + 1)`, attempt counted from 0.
BackoffMsFromZero(attempt) == 1000 * attempt

BackoffMs(attempt) == 1000 * (attempt + 1)

\* `if (attempt < retries - 1)`: a wait follows every failed attempt but the
\* last.
SafeWaitsAlways(attempt, retries) == TRUE

SafeWaits(attempt, retries) == attempt < retries - 1

\* `lastError = error as Error`: the error of the latest failed attempt.
SafeRecordFirst(last, e) == IF last = NoError THEN e ELSE last

SafeRecord(last, e) == e

\* `throw lastError || new Error('Все попытки ...')`: the recorded error
\* itself is thrown; no error wraps it.
SafeThrown(last) ==
  [wrapped |-> FALSE, err |-> IF last = NoError THEN <<"allFailed", 0>> ELSE last]

\* The loop as a do-while: the first attempt is made before `retries` is
\* looked at.
SafeLoopDoWhile(s, a, n, t, last) ==
  IF a < n \/ a = 0
    THEN /\ HStart(a + 1, t)
         /\ se' = [s EXCEPT !.pc = "racing", !.attempt = a, !.retries = n,
                             !.fn = t, !.lastError = last, !.pend = 0,
                             !.delayMs = 0, !.starts = s.starts + 1]
         /\ slog' = Append(slog, <<"start", a + 1>>)
    ELSE /\ se' = [s EXCEPT !.pc = "done", !.attempt = a, !.retries = n,
                             !.fn = t, !.lastError = last, !.pend = 0,
                             !.delayMs = 0, !.out = "thrown",
                             !.thrown = SafeThrown(last)]
         /\ UNCHANGED <<slog, hVars, histVars>>

\* The head of the loop, `attempt < retries`, with `a` the attempt counted
\* from 0: attempt a calls fn() (handler slot a + 1) and races it against
\* the timer; after the loop the recorded error is thrown.
SafeLoop(s, a, n, t, last) ==
  IF a < n
    THEN /\ HStart(a + 1, t)
         /\ se' = [s EXCEPT !.pc = "racing", !.attempt = a, !.retries = n,
                             !.fn = t, !.lastError = last, !.pend = 0,
                             !.delayMs = 0, !.starts = s.starts + 1]
         /\ slog' = Append(slog, <<"start", a + 1>>)
    ELSE /\ se' = [s EXCEPT !.pc = "done", !.attempt = a, !.retries = n,
                             !.fn = t, !.lastError = last, !.pend = 0,
                             !.delayMs = 0, !.out = "thrown",
                             !.thrown = SafeThrown(last)]
         /\ UNCHANGED <<slog, hVars, histVars>>

\* safeExecute(fn, timeoutMs, retries) is called with a tool handler as fn.
\* (No call site of safeExecute is in the source; any handler may be its fn.)
SafeCall(t, n) ==
  /\ se.pc = "idle"
  /\ SafeLoop(se, 0, n, t, NoError)
  /\ UNCHANGED <<progVars, reqVars>>
  /\ UNCHANGED libVars

\* `return result as T` left out: the loop goes on after fn() resolved.
SafeResolveRetries ==
  /\ se.pc = "racing"
  /\ res[se.attempt + 1] = "ok"
  /\ SafeLoop(se, se.attempt + 1, se.retries, se.fn, se.lastError)
  /\ UNCHANGED <<progVars, reqVars>>
  /\ UNCHANGED libVars

\* fn() resolved before the timer: its result is returned.
SafeResolve ==
  /\ se.pc = "racing"
  /\ res[se.attempt + 1] = "ok"
  /\ se' = [se EXCEPT !.pc = "done", !.out = "ok"]
  /\ UNCHANGED <<progVars, hVars, histVars, reqVars, slog>>
  /\ UNCHANGED libVars

\* The end of the catch block: the wait before the next attempt, or the
\* next turn of the loop at once.
SafeAfterCatch(s, last) ==
  IF SafeWaits(s.attempt, s.retries)
    THEN /\ se' = [s EXCEPT !.pc = "backoff", !.lastError = last, !.pend = 0,
                            !.delayMs = BackoffMs(s.attempt)]
         /\ slog' = Append(slog, <<"wait", BackoffMs(s.attempt)>>)
         /\ UNCHANGED <<hVars, histVars>>
    ELSE SafeLoop(s, s.attempt + 1, s.retries, s.fn, last)

\* The catch block: the timer fired while fn() was pending, or fn()
\* rejected.  A timeout-classified error starts the teardown.
SafeCatch ==
  /\ se.pc = "racing"
  /\ res[se.attempt + 1] # "ok"
  /\ LET k == IF res[se.attempt + 1] = "none" THEN "guardTimeout"
                                               ELSE res[se.attempt + 1]
         last == SafeRecord(se.lastError, <<k, se.attempt + 1>>)
     IN  IF IsTimeoutError(k)
           THEN IF TeardownNeedsClose(globalBrowser)
                  THEN /\ se' = [se EXCEPT !.pc = "closing", !.lastError = last,
                                           !.pend = globalBrowser]
                       /\ UNCHANGED <<lastSnapshot, slog, hVars, histVars>>
                  ELSE /\ lastSnapshot' = FALSE
                       /\ SafeAfterCatch(se, last)
           ELSE /\ SafeAfterCatch(se, last)
                /\ UNCHANGED lastSnapshot
  /\ UNCHANGED <<globalBrowser, globalPage, bstate, bgClose, reqVars>>
  /\ UNCHANGED libVars

\* The inner catch around close(): the close error is passed to
\* console.error and dropped; lastError stays the attempt's error.
SafeCloseErrorReplaces(last, e) == e

SafeCloseError(last, e) == last

\* `await globalBrowser.close()` of the teardown resolved: the handles are
\* nulled; or it rejected: the error is logged.  Either way the snapshot is
\* dropped.
SafeCloseDone ==
  /\ se.pc = "closing"
  /\ \/ /\ se.pend # 0
        /\ bstate' = Closed(bstate, se.pend)
        /\ globalBrowser' = 0
        /\ globalPage' = 0
        /\ SafeAfterCatch(se, se.lastError)
     \/ /\ UNCHANGED <<bstate, globalBrowser, globalPage>>
        /\ SafeAfterCatch([se EXCEPT !.closeErrors = @ + 1],
                          SafeCloseError(se.lastError,
                                         <<"closeFailed", se.attempt + 1>>))
  /\ lastSnapshot' = FALSE
  /\ UNCHANGED <<bgClose, reqVars>>
  /\ UNCHANGED libVars

\* The backoff timer fired: `attempt++` and the next turn of the loop.
SafeBackoffDone ==
  /\ se.pc = "backoff"
  /\ SafeLoop(se, se.attempt + 1, se.retries, se.fn, se.lastError)
  /\ UNCHANGED <<progVars, reqVars>>
  /\ UNCHANGED libVars

----------------------------------------------------------------------------
(* browser-profiles: the catalog and the round-robin counter *)

\* `export const browserProfiles: BrowserProfile[]`, each entry named by
\* the comment above it.
browserProfiles ==
  <<"Windows 10 + Chrome", "Windows 10 + Firefox", "MacOS + Safari",
    "iPad + Safari", "Android Phone + Chrome">>

\* arr[i] of a JavaScript array: undefined outside 0..length-1.
ArrayAt(arr, i) == IF i \in 0..(Len(arr) - 1) THEN arr[i + 1] ELSE "undefined"

\* The JavaScript remainder a % n for n > 0: it takes the sign of a.
JsRem(a, n) == IF a >= 0 THEN a % n ELSE -((-a) % n)

\* `const safeIndex = index % browserProfiles.length;
\*  return browserProfiles[safeIndex];`
getProfileByIndex(index) ==
  ArrayAt(browserProfiles, JsRem(index, Len(browserProfiles)))

\* getRandomProfile with randomIndex = Math.floor(Math.random() * length).
getRandomProfile(randomIndex) == ArrayAt(browserProfiles, randomIndex)

RandomIndexes == 0..(Len(browserProfiles) - 1)

\* `currentProfileIndex = (currentProfileIndex + 1) % 5`
NextProfileIndexStays(i) == i

NextProfileIndex(i) == (i + 1) % 5

\* The profile selection, which runs without an await: a random profile
\* and the counter left alone, or the profile at the counter and the counter
\* advanced.
SelectProfile(h, random, r) ==
  /\ ppc' = [ppc EXCEPT ![h] = "selected"]
  /\ IF random
       THEN /\ psel' = [psel EXCEPT ![h] = [random |-> TRUE, index |-> r,
                                           profile |-> getRandomProfile(r)]]
            /\ UNCHANGED <<currentProfileIndex, pord>>
       ELSE /\ psel' = [psel EXCEPT ![h] =
                         [random |-> FALSE, index |-> currentProfileIndex,
                          profile |-> getProfileByIndex(currentProfileIndex)]]
            /\ currentProfileIndex' = NextProfileIndex(currentProfileIndex)
            /\ pord' = Append(pord, currentProfileIndex)
  /\ UNCHANGED <<qIndex, qResult>>

\* getOrCreateBrowserAndPage(headless, useRandomProfile): the selection is
\* its first statement.
AcqSelectProfile(h, useRandomProfile, r) ==
  /\ ppc[h] = "idle"
  /\ SelectProfile(h, useRandomProfile, r)
  /\ UNCHANGED <<progVars, hVars, histVars, reqVars, safeVars, delayVars,
                 typeVars, gestVars>>

\* browser_navigate with a session to close: the selection waits for
\* `await globalBrowser.close()`.
NavSelectWaits(h) ==
  /\ ppc[h] = "idle"
  /\ ppc' = [ppc EXCEPT ![h] = "navClose"]
  /\ UNCHANGED <<currentProfileIndex, psel, pord, qIndex, qResult>>
  /\ UNCHANGED <<progVars, hVars, histVars, reqVars, safeVars, delayVars,
                 typeVars, gestVars>>

\* browser_navigate: the close rejected, the handler fails before it selects.
NavSelectSkipped(h) ==
  /\ ppc[h] = "navClose"
  /\ ppc' = [ppc EXCEPT ![h] = "failed"]
  /\ UNCHANGED <<currentProfileIndex, psel, pord, qIndex, qResult>>
  /\ UNCHANGED <<progVars, hVars, histVars, reqVars, safeVars, delayVars,
                 typeVars, gestVars>>

\* browser_navigate({rotateFingerprint}): the selection, at once or after
\* the close resolved.
NavSelectProfile(h, rotateFingerprint, r) ==
  /\ ppc[h] \in {"idle", "navClose"}
  /\ SelectProfile(h, rotateFingerprint, r)
  /\ UNCHANGED <<progVars, hVars, histVars, reqVars, safeVars, delayVars,
                 typeVars, gestVars>>

\* getProfileByIndex(i) called on its own.
CallGetProfileByIndex(i) ==
  /\ qIndex' = i
  /\ qResult' = getProfileByIndex(i)
  /\ UNCHANGED <<currentProfileIndex, ppc, psel, pord>>
  /\ UNCHANGED <<progVars, hVars, histVars, reqVars, safeVars, delayVars,
                 typeVars, gestVars>>

----------------------------------------------------------------------------
(* humanDelay *)

\* a * b: Infinity * 0 is NaN.
NumMul(a, b) ==
  IF a.kind = "nan" \/ b.kind = "nan" THEN NaN
  ELSE IF a.kind = "inf" \/ b.kind = "inf"
    THEN IF a.num * b.num = 0 THEN NaN
         ELSE IF a.num * b.num > 0 THEN PosInf ELSE NegInf
    ELSE Fin(a.num * b.num, a.den * b.den)

\* a + b for a finite b.
NumAdd(a, b) ==
  IF a.kind = "fin" THEN Fin(a.num * b.den + b.num * a.den, a.den * b.den)
                    ELSE a

\* Math.round: the integer nearest to x, a half rounded up; NaN and the
\* infinities are returned as they are.
MathRound(x) ==
  IF x.kind = "fin" THEN Fin((2 * x.num + x.den) \div (2 * x.den), 1) ELSE x

\* Math.min(a, b) and Math.max(a, b) with an integer a: NaN if b is NaN.
MathMin(a, b) ==
  IF b.kind = "nan" THEN NaN
  ELSE IF b.kind = "inf" THEN (IF b.num > 0 THEN Fin(a, 1) ELSE b)
  ELSE IF a * b.den <= b.num THEN Fin(a, 1) ELSE b

MathMax(a, b) ==
  IF b.kind = "nan" THEN NaN
  ELSE IF b.kind = "inf" THEN (IF b.num > 0 THEN b ELSE Fin(a, 1))
  ELSE IF a * b.den >= b.num THEN Fin(a, 1) ELSE b

\* `delay = Math.max(min, Math.min(max, delay))`
Clamp(min, max, delay) == MathMax(min, MathMin(max, delay))

\* The value humanDelay gives to setTimeout, with z0 the value of random():
\* mean = (min + max) / 2, stdDev = (max - min) / 4,
\* delay = Math.round(random() * stdDev + mean), limited to the range.
humanDelay(min, max, z0) ==
  LET mean   == Fin(min + max, 2)
      stdDev == Fin(max - min, 4)
  IN  Clamp(min, max, MathRound(NumAdd(NumMul(z0, stdDev), mean)))

\* The values of random(): sqrt(-2 ln u1) * cos(2 pi u2) is any real, and
\* an infinity when Math.random() returned 0 for u1 (ln 0 is -Infinity).
BoxMuller == {Fin(k, ZDen) : k \in (-ZMax)..ZMax} \cup {PosInf, NegInf}

\* humanDelay(min, max) is called and its timer is set.
CallHumanDelay(min, max, z0) ==
  /\ min <= max
  /\ dArgs' = [called |-> TRUE, min |-> min, max |-> max, z0 |-> z0]
  /\ dDelay' = humanDelay(min, max, z0)
  /\ UNCHANGED <<progVars, hVars, histVars, reqVars, safeVars, profVars,
                 typeVars, gestVars>>

----------------------------------------------------------------------------
(* humanType *)

sessionVars == <<progVars, hVars, histVars, reqVars, safeVars>>

\* The driver: a character typed into the field replaces the selection, if
\* there is one, and is appended otherwise.
Typed(f, c) ==
  [content |-> IF f.selected THEN <<c>> ELSE Append(f.content, c),
   selected |-> FALSE]

\* The `for (const char of text)` loop leaving a character out.
TypeLoopSkips(i) ==
  ty' = [ty EXCEPT !.pc = IF i + 1 <= Len(ty.text) THEN "press"
                                                   ELSE "finalDelay",
                   !.i = i + 1]

\* The `for (const char of text)` loop: the next character, or the pause
\* after the text.
TypeLoop(i) ==
  ty' = [ty EXCEPT !.pc = IF i <= Len(ty.text) THEN "press" ELSE "finalDelay",
                   !.i = i]

\* humanType(page, element, text) is called on a field with some content:
\* `await element.fill('')`.
CallHumanType(text, initial) ==
  /\ ty.pc = "idle"
  /\ ty' = [pc |-> "fill", text |-> text, i |-> 0]
  /\ field' = [content |-> initial, selected |-> FALSE]
  /\ tlog' = <<>>
  /\ UNCHANGED <<sessionVars, profVars, delayVars,
                 gestVars>>

\* fill('') resolved: the field is empty.
TypeFillDone ==
  /\ ty.pc = "fill"
  /\ field' = [content |-> <<>>, selected |-> FALSE]
  /\ TypeLoop(1)
  /\ UNCHANGED <<tlog, sessionVars, profVars, delayVars,
                 gestVars>>

\* fill('') rejected: `await element.click({ clickCount: 3 })`.
TypeFillFail ==
  /\ ty.pc = "fill"
  /\ ty' = [ty EXCEPT !.pc = "click"]
  /\ UNCHANGED <<field, tlog, sessionVars, profVars, delayVars,
                 gestVars>>

\* The triple click resolved, the content is selected:
\* `await page.keyboard.press('Backspace')`.
TypeClickDone ==
  /\ ty.pc = "click"
  /\ field' = [field EXCEPT !.selected = (field.content # <<>>)]
  /\ ty' = [ty EXCEPT !.pc = "backspace"]
  /\ UNCHANGED <<tlog, sessionVars, profVars, delayVars,
                 gestVars>>

\* Backspace resolved: the selection is deleted.
TypeBackspaceDone ==
  /\ ty.pc = "backspace"
  /\ field' = IF field.selected THEN [content |-> <<>>, selected |-> FALSE]
                                ELSE field
  /\ TypeLoop(1)
  /\ UNCHANGED <<tlog, sessionVars, profVars, delayVars,
                 gestVars>>

\* `console.warn('Не удалось очистить поле перед вводом текста')` without
\* the warning.
ClearWarningSilent(log) == log

\* The inner catch:
\* `console.warn('Не удалось очистить поле перед вводом текста')`.
ClearWarning(log) == Append(log, [op |-> "warn", c |-> ""])

\* The triple click or the Backspace rejected: the inner catch warns that
\* the field could not be cleared, and the typing starts.
TypeClearFail ==
  /\ ty.pc \in {"click", "backspace"}
  /\ tlog' = ClearWarning(tlog)
  /\ TypeLoop(1)
  /\ UNCHANGED <<field, sessionVars, profVars, delayVars,
                 gestVars>>

\* `await page.keyboard.press(char)` resolved, or it rejected and
\* `await element.type(char, { delay: 0 })` resolved: the character is in
\* the field; `await humanDelay(delay, delay + 50)`.
TypeCharDone ==
  /\ ty.pc \in {"press", "type"}
  /\ field' = Typed(field, ty.text[ty.i])
  /\ tlog' = Append(tlog, [op |-> ty.pc, c |-> ty.text[ty.i]])
  /\ ty' = [ty EXCEPT !.pc = "delay"]
  /\ UNCHANGED <<sessionVars, profVars, delayVars,
                 gestVars>>

\* keyboard.press(char) rejected: element.type is tried.
TypePressFail ==
  /\ ty.pc = "press"
  /\ ty' = [ty EXCEPT !.pc = "type"]
  /\ tlog' = Append(tlog, [op |-> "pressFail", c |-> ty.text[ty.i]])
  /\ UNCHANGED <<field, sessionVars, profVars, delayVars,
                 gestVars>>

\* element.type(char) rejected: humanType fails with that error.
TypeTypeFail ==
  /\ ty.pc = "type"
  /\ ty' = [ty EXCEPT !.pc = "failed"]
  /\ UNCHANGED <<field, tlog, sessionVars, profVars, delayVars,
                 gestVars>>

\* The pause after a character ended.
TypeDelayDone ==
  /\ ty.pc = "delay"
  /\ tlog' = Append(tlog, [op |-> "delay", c |-> ty.text[ty.i]])
  /\ TypeLoop(ty.i + 1)
  /\ UNCHANGED <<field, sessionVars, profVars, delayVars,
                 gestVars>>

\* `await humanDelay(300, 800)` ended: humanType returns.
TypeFinalDelayDone ==
  /\ ty.pc = "finalDelay"
  /\ ty' = [ty EXCEPT !.pc = "done"]
  /\ UNCHANGED <<field, tlog, sessionVars, profVars, delayVars,
                 gestVars>>

----------------------------------------------------------------------------
(* humanType: the pause after each character *)

\* The values of Math.random(), as numerators over RDen.
MathRandom == 0..(RDen - 1)

\* `Math.floor(Math.random() * 300) + 200`
avgTypingSpeed(r) == ((r * 300) \div RDen) + 200

\* `/[\s,.?!;:]/.test(char) ? 2.0 : 1.0`
factor(char) == IF char \in {" ", ",", ".", "?", "!", ";", ":"} THEN 2 ELSE 1

\* `Math.floor(baseDelay * factor * variation)` with
\* baseDelay = 60000 / avgTypingSpeed and
\* variation = Math.random() * 0.5 + 0.75 = (2 r + 3 RDen) / (4 RDen).
TypeDelay(speed, char, r) ==
  (60000 * factor(char) * (2 * r + 3 * RDen)) \div (speed * 4 * RDen)

\* humanType is called: `avgTypingSpeed` is drawn.
KeysStart(r) ==
  /\ kd.speed = 0
  /\ kd' = [kd EXCEPT !.speed = avgTypingSpeed(r)]
  /\ UNCHANGED <<sessionVars, profVars, delayVars, typeVars, moveVars,
                 scrollVars, wanderVars>>

\* One iteration of the loop: `delay` is computed from a new `variation`
\* and, after the character is injected, `humanDelay(delay, delay + 50)`
\* sets its timer.
KeysChar(char, r, z0) ==
  /\ kd.speed # 0
  /\ Len(kd.chars) < MaxLen
  /\ LET delay == TypeDelay(kd.speed, char, r)
     IN  kd' = [kd EXCEPT !.chars =
                  Append(@, [char |-> char, delay |-> delay,
                             pause |-> humanDelay(delay, delay + 50, z0)])]
  /\ UNCHANGED <<sessionVars, profVars, delayVars, typeVars, moveVars,
                 scrollVars, wanderVars>>

----------------------------------------------------------------------------
(* humanMouseMovement and humanClick *)

\* Of the two coordinates the model keeps x; y is computed by the same
\* expressions from its own draws of Math.random().

\* `Math.random() * viewport.width`, as a numerator over 4 * RDen.
StartX(r, width) == 4 * r * (IF width = 0 THEN DefaultWidth ELSE width)

\* `box.x + box.width * (0.25 + Math.random() * 0.5)`, as a numerator over
\* 4 * RDen.
TargetX(r, box) == 4 * RDen * box.x + box.width * (RDen + 2 * r)

\* `Math.floor(Math.random() * 5) + 5`
MoveSteps(r) == ((r * 5) \div RDen) + 5

\* Math.sin(x * Math.PI) for 0 < x = i/steps < 1, in thousandths, by the
\* approximation 16 x (1 - x) / (5 - 4 x (1 - x)) (within 2 thousandths).
SinMilli(i, steps) ==
  (16000 * i * (steps - i)) \div (5 * steps * steps - 4 * i * (steps - i))

\* `Math.sin(progress * Math.PI)` with progress = i / steps. Math.sin(0) is
\* 0; at i = steps the progress is 1 and Math.sin(Math.PI) is
\* 1.2246467991473532e-16, since the double Math.PI is not pi: the value is
\* milli / 1000 + sinPi * Math.sin(Math.PI).
JitterFactor(i, steps) ==
  IF i = 0 THEN [milli |-> 0, sinPi |-> 0]
  ELSE IF i = steps THEN [milli |-> 0, sinPi |-> 1]
  ELSE [milli |-> SinMilli(i, steps), sinPi |-> 0]

\* `(Math.random() - 0.5) * 20 * jitterFactor`, as numerators over RDen.
JitterX(r, f) ==
  [milli |-> (2 * r - RDen) * 10 * f.milli,
   sinPi |-> (2 * r - RDen) * 10 * f.sinPi]

\* `startX + (targetX - startX) * progress`, as a numerator over
\* 4 * RDen * steps.
MoveX(m, i) == m.startX * m.steps + (m.targetX - m.startX) * i

\* One iteration of the loop up to its `await page.mouse.move(moveX, moveY)`.
MoveStep(m, i, r) ==
  [m EXCEPT !.pc = "move", !.i = i,
            !.jitterFactor = JitterFactor(i, m.steps),
            !.jitterX = JitterX(r, JitterFactor(i, m.steps)),
            !.moveX = MoveX(m, i)]

\* humanClick without its `await humanDelay(50, 150)`.
MoveReturnToClick(m) ==
  [m EXCEPT !.pc = IF m.caller = "humanClick" THEN "click" ELSE "done"]

\* humanMouseMovement returns: to humanClick's `await humanDelay(50, 150)`,
\* or to its caller.
MoveReturn(m) ==
  [m EXCEPT !.pc = IF m.caller = "humanClick" THEN "preClick" ELSE "done"]

\* The call that is issued and awaited at a position: page.mouse.move,
\* humanDelay or element.click.
Issued(log, pos) ==
  IF pos = "move" THEN Append(log, "move")
  ELSE IF pos \in {"moveDelay", "preClick", "postClick"}
    THEN Append(log, "delay")
  ELSE IF pos = "click" THEN Append(log, "click")
  ELSE log

\* humanClick(page, element) or humanMouseMovement(page, element) is
\* called: `await element.boundingBox()`.
CallHumanMouseMovement(caller) ==
  /\ mv.pc = "idle"
  /\ mv' = [mv EXCEPT !.pc = "box", !.caller = caller]
  /\ mlog' = <<>>
  /\ UNCHANGED <<sessionVars, profVars, delayVars, typeVars, keyVars,
                 scrollVars, wanderVars>>

\* boundingBox() resolved with null: `if (!box) return;`.
MoveNoBox ==
  /\ mv.pc = "box"
  /\ mv' = MoveReturn(mv)
  /\ mlog' = Issued(mlog, mv'.pc)
  /\ UNCHANGED <<sessionVars, profVars, delayVars, typeVars, keyVars,
                 scrollVars, wanderVars>>

\* boundingBox() resolved with a box: the start, the target and the number
\* of steps are drawn and the loop is entered at i = 0.
MoveBoxDone(box, width, rs, rt, rn, rj) ==
  /\ mv.pc = "box"
  /\ mv' = MoveStep([mv EXCEPT !.startX = StartX(rs, width),
                               !.targetX = TargetX(rt, box),
                               !.steps = MoveSteps(rn)], 0, rj)
  /\ mlog' = Issued(mlog, mv'.pc)
  /\ UNCHANGED <<sessionVars, profVars, delayVars, typeVars, keyVars,
                 scrollVars, wanderVars>>

\* mouse.move resolved: `await humanDelay(20, 50)`.
MoveMoveDone ==
  /\ mv.pc = "move"
  /\ mv' = [mv EXCEPT !.pc = "moveDelay"]
  /\ mlog' = Issued(mlog, mv'.pc)
  /\ UNCHANGED <<sessionVars, profVars, delayVars, typeVars, keyVars,
                 scrollVars, wanderVars>>

\* The pause of a step ended: `i++`, the next step or the return.
MoveDelayDone(rj) ==
  /\ mv.pc = "moveDelay"
  /\ mv' = IF mv.i + 1 <= mv.steps THEN MoveStep(mv, mv.i + 1, rj)
                                   ELSE MoveReturn(mv)
  /\ mlog' = Issued(mlog, mv'.pc)
  /\ UNCHANGED <<sessionVars, profVars, delayVars, typeVars, keyVars,
                 scrollVars, wanderVars>>

\* humanClick: `await humanDelay(50, 150)` ended: `await element.click()`.
ClickPreDelayDone ==
  /\ mv.pc = "preClick"
  /\ mv' = [mv EXCEPT !.pc = "click"]
  /\ mlog' = Issued(mlog, mv'.pc)
  /\ UNCHANGED <<sessionVars, profVars, delayVars, typeVars, keyVars,
                 scrollVars, wanderVars>>

\* element.click() resolved: `await humanDelay(150, 400)`.
ClickDone ==
  /\ mv.pc = "click"
  /\ mv' = [mv EXCEPT !.pc = "postClick"]
  /\ mlog' = Issued(mlog, mv'.pc)
  /\ UNCHANGED <<sessionVars, profVars, delayVars, typeVars, keyVars,
                 scrollVars, wanderVars>>

\* The pause after the click ended: humanClick returns.
ClickPostDelayDone ==
  /\ mv.pc = "postClick"
  /\ mv' = [mv EXCEPT !.pc = "done"]
  /\ UNCHANGED <<mlog, sessionVars, profVars, delayVars, typeVars, keyVars,
                 scrollVars, wanderVars>>

\* boundingBox(), mouse.move or click() rejected: the function fails with
\* that error.
MoveFail ==
  /\ mv.pc \in {"box", "move", "click"}
  /\ mv' = [mv EXCEPT !.pc = "failed"]
  /\ UNCHANGED <<mlog, sessionVars, profVars, delayVars, typeVars, keyVars,
                 scrollVars, wanderVars>>

----------------------------------------------------------------------------
(* humanScroll *)

\* `page.viewportSize()?.height || 800`
ViewportHeightOf(reported) ==
  IF reported = 0 THEN DefaultScrollHeight ELSE reported

\* `Math.floor(Math.random() * 3) + 2` leaving its range.
ScrollCountUpToFive(r) == ((r * 4) \div RDen) + 2

\* `Math.floor(Math.random() * 3) + 2`
ScrollCount(r) == ((r * 3) \div RDen) + 2

\* `(Math.random() * 0.5 + 0.75) * viewportHeight`, as a numerator over
\* 4 * RDen.
ScrollDistance(r, viewportHeight) == (2 * r + 3 * RDen) * viewportHeight

\* `Math.random() > 0.2 ? 1 : -1`
ScrollDirection(r) == IF 5 * r > RDen THEN 1 ELSE -1

\* One iteration of the loop up to its `await page.evaluate(...)`:
\* window.scrollBy(0, scrollDistance * direction) is issued.
ScrollStep(s, i, rd, rdir) ==
  [s EXCEPT !.pc = "scroll", !.i = i,
            !.distance = ScrollDistance(rd, s.viewportHeight)
                           * ScrollDirection(rdir),
            !.issued = @ + 1]

\* humanScroll(page) is called:
\* `await page.evaluate(() => document.body.scrollHeight)`.
CallHumanScroll ==
  /\ sc.pc = "idle"
  /\ sc' = [sc EXCEPT !.pc = "height"]
  /\ UNCHANGED <<sessionVars, profVars, delayVars, typeVars, keyVars,
                 moveVars, wanderVars>>

\* The page height arrived: the viewport height is read, the number of
\* scrolls is drawn and the loop is entered at i = 0.
ScrollHeightDone(reported, rc, rd, rdir) ==
  /\ sc.pc = "height"
  /\ LET s == [sc EXCEPT !.reported = reported,
                         !.viewportHeight = ViewportHeightOf(reported),
                         !.scrollCount = ScrollCount(rc)]
     IN  sc' = IF 0 < s.scrollCount THEN ScrollStep(s, 0, rd, rdir)
                                    ELSE [s EXCEPT !.pc = "done"]
  /\ UNCHANGED <<sessionVars, profVars, delayVars, typeVars, keyVars,
                 moveVars, wanderVars>>

\* window.scrollBy ran: `await humanDelay(500, 1500)`.
ScrollByDone ==
  /\ sc.pc = "scroll"
  /\ sc' = [sc EXCEPT !.pc = "delay"]
  /\ UNCHANGED <<sessionVars, profVars, delayVars, typeVars, keyVars,
                 moveVars, wanderVars>>

\* The pause between two scrolls ended: `i++`, the next scroll or the
\* return.
ScrollDelayDone(rd, rdir) ==
  /\ sc.pc = "delay"
  /\ sc' = IF sc.i + 1 < sc.scrollCount THEN ScrollStep(sc, sc.i + 1, rd, rdir)
                                        ELSE [sc EXCEPT !.pc = "done"]
  /\ UNCHANGED <<sessionVars, profVars, delayVars, typeVars, keyVars,
                 moveVars, wanderVars>>

\* A page.evaluate rejected: humanScroll fails with that error.
ScrollFail ==
  /\ sc.pc \in {"height", "scroll"}
  /\ sc' = [sc EXCEPT !.pc = "failed"]
  /\ UNCHANGED <<sessionVars, profVars, delayVars, typeVars, keyVars,
                 moveVars, wanderVars>>

----------------------------------------------------------------------------
(* randomMouseMovements *)

\* `Math.random() * 50 + 50`
Speed(r) == ((r * 50) \div RDen) + 50

\* The time of the setTimeout of humanDelay(speed, speed + 30).
SpeedDelay(speed, z0) == humanDelay(speed, speed + 30, z0).num

\* `while (Date.now() - startTime < duration)` with every iteration
\* entered.
WhileAlways(w) == TRUE

\* `while (Date.now() - startTime < duration)`
While(w) == w.elapsed < w.duration

\* The loop test and, if it holds, the iteration up to its
\* `await page.mouse.move(targetX, targetY)`; the return otherwise. The
\* point given to page.mouse.move is any point of the viewport and is not
\* kept.
RandomLoop(w, rs) ==
  IF While(w)
    THEN [w EXCEPT !.pc = "move", !.speed = Speed(rs), !.moves = @ + 1]
    ELSE [w EXCEPT !.pc = "done"]

\* randomMouseMovements(page, duration) is called.
CallRandomMouseMovements(duration, rs) ==
  /\ wd.pc = "idle"
  /\ wd' = RandomLoop([wd EXCEPT !.duration = duration], rs)
  /\ UNCHANGED <<sessionVars, profVars, delayVars, typeVars, keyVars,
                 moveVars, scrollVars>>

\* mouse.move resolved after d ms: `await humanDelay(speed, speed + 30)`.
RandomMoveDone(d) ==
  /\ wd.pc = "move"
  /\ wd' = [wd EXCEPT !.pc = "delay", !.elapsed = @ + d]
  /\ UNCHANGED <<sessionVars, profVars, delayVars, typeVars, keyVars,
                 moveVars, scrollVars>>

\* The timer of humanDelay fired, late ms after it was due: the loop test.
RandomDelayDone(z0, late, rs) ==
  /\ wd.pc = "delay"
  /\ wd' = RandomLoop([wd EXCEPT !.elapsed =
                         @ + SpeedDelay(wd.speed, z0) + late], rs)
  /\ UNCHANGED <<sessionVars, profVars, delayVars, typeVars, keyVars,
                 moveVars, scrollVars>>

\* mouse.move rejected: randomMouseMovements fails with that error.
RandomMoveFail ==
  /\ wd.pc = "move"
  /\ wd' = [wd EXCEPT !.pc = "failed"]
  /\ UNCHANGED <<sessionVars, profVars, delayVars, typeVars, keyVars,
                 moveVars, scrollVars>>

----------------------------------------------------------------------------
(* The server: requests through the _handleRequest patch *)

RequestStep ==
  \E r \in Calls : ReqResolve(r) \/ ReqCatch(r) \/ ReqCloseDone(r)

ProcessStep ==
  \/ UnhandledRejection
  \/ \E b \in Calls : BgCloseDone(b)

\* The RPC boundary answers one request before it dispatches the next.
Next ==
  \/ \E r \in Calls, t \in Tools : Dispatch(r, t, TRUE)
  \/ HandlerStep
  \/ RequestStep
  \/ ProcessStep

Spec == Init /\ [][Next]_vars

\* Requests are dispatched as they arrive.
NextConc ==
  \/ \E r \in Calls, t \in Tools : Dispatch(r, t, FALSE)
  \/ HandlerStep
  \/ RequestStep

SpecConc == Init /\ [][NextConc]_vars

\* One call of safeExecute around a tool handler.
NextGuard ==
  \/ \E t \in Tools, n \in (-1)..MaxRetries : SafeCall(t, n)
  \/ SafeResolve
  \/ SafeCatch
  \/ SafeCloseDone
  \/ SafeBackoffDone
  \/ HandlerStep

SpecGuard == Init /\ [][NextGuard]_vars

\* The timers of safeExecute fire: the race of an attempt settles, by fn()
\* or by the timer, and the backoff wait ends. Nothing makes the driver
\* answer a call: a close() of a wedged browser may stay pending.
SpecGuardTimers ==
  /\ Init
  /\ [][NextGuard]_vars
  /\ WF_vars(SafeResolve \/ SafeCatch)
  /\ WF_vars(SafeBackoffDone)

\* The profile selections of concurrently dispatched calls, and
\* getProfileByIndex on its own.
NextProfile ==
  \/ \E h \in Calls, b \in BOOLEAN, r \in RandomIndexes :
       AcqSelectProfile(h, b, r)
  \/ \E h \in Calls : NavSelectWaits(h)
  \/ \E h \in Calls : NavSelectSkipped(h)
  \/ \E h \in Calls, b \in BOOLEAN, r \in RandomIndexes :
       NavSelectProfile(h, b, r)
  \/ \E i \in (-MaxIndex)..MaxIndex : CallGetProfileByIndex(i)

\* The counter is where any number of earlier non-random selections left it.
InitProfile ==
  InitSession /\ currentProfileIndex \in 0..(Len(browserProfiles) - 1)

SpecProfile == InitProfile /\ [][NextProfile]_vars

\* The timing model on its own.
NextTiming ==
  \E min \in 0..MaxDelayMs, max \in 0..MaxDelayMs, z0 \in BoxMuller :
    CallHumanDelay(min, max, z0)

SpecTiming == Init /\ [][NextTiming]_vars

\* Typed entry into one field.
NextTyping ==
  \/ \E text \in Texts, initial \in Texts : CallHumanType(text, initial)
  \/ TypeFillDone
  \/ TypeFillFail
  \/ TypeClickDone
  \/ TypeBackspaceDone
  \/ TypeClearFail
  \/ TypeCharDone
  \/ TypePressFail
  \/ TypeTypeFail
  \/ TypeDelayDone
  \/ TypeFinalDelayDone

SpecTyping == Init /\ [][NextTyping]_vars

\* The pauses of one call of humanType.
NextKeys ==
  \/ \E r \in MathRandom : KeysStart(r)
  \/ \E char \in Chars, r \in MathRandom, z0 \in BoxMuller :
       KeysChar(char, r, z0)

SpecKeys == Init /\ [][NextKeys]_vars

\* One call of humanClick or of humanMouseMovement.
NextPointer ==
  \/ \E caller \in {"humanClick", "humanMouseMovement"} :
       CallHumanMouseMovement(caller)
  \/ MoveNoBox
  \/ \E box \in Boxes, width \in ViewportWidths, rs, rt, rn, rj \in MathRandom :
       MoveBoxDone(box, width, rs, rt, rn, rj)
  \/ MoveMoveDone
  \/ \E rj \in MathRandom : MoveDelayDone(rj)
  \/ ClickPreDelayDone
  \/ ClickDone
  \/ ClickPostDelayDone
  \/ MoveFail

SpecPointer == Init /\ [][NextPointer]_vars

\* One call of humanScroll.
NextScroll ==
  \/ CallHumanScroll
  \/ \E reported \in ViewportHeights, rc, rd, rdir \in MathRandom :
       ScrollHeightDone(reported, rc, rd, rdir)
  \/ ScrollByDone
  \/ \E rd, rdir \in MathRandom : ScrollDelayDone(rd, rdir)
  \/ ScrollFail

SpecScroll == Init /\ [][NextScroll]_vars

\* One call of randomMouseMovements.
RandomAnswered ==
  \/ \E d \in {0, MoveMs} : RandomMoveDone(d)
  \/ \E z0 \in BoxMuller, late \in {0, LateMs}, rs \in MathRandom :
       RandomDelayDone(z0, late, rs)
  \/ RandomMoveFail

NextWander ==
  \/ \E duration \in Durations, rs \in MathRandom :
       CallRandomMouseMovements(duration, rs)
  \/ RandomAnswered

\* The driver answers every page.mouse.move and every timer fires.
SpecWander == Init /\ [][NextWander]_vars /\ WF_vars(RandomAnswered)

----------------------------------------------------------------------------
(* Properties *)

OpenBrowsers == {b \in Calls : bstate[b] = "open"}

Running == {h \in Calls : InFlight(h)}

Started == {h \in Calls : tool[h] # "none"}

\* The tools that acquire their session through getOrCreateBrowserAndPage.
AcquireTools == {"screenshot", "snapshot"}

\* C1: in every reachable state at most one browser has been launched and
\* not yet closed.
C1_AtMostOneOpenBrowser == Cardinality(OpenBrowsers) <= 1

C3_TimeoutLeavesNoSession ==
  [][(/\ se.pc \in {"racing", "closing"}
      /\ se'.pc \in {"backoff", "done"}
      /\ se'.out # "ok"
      /\ IsTimeoutError(se'.lastError[1]))
     => (globalBrowser' = 0 /\ globalPage' = 0 /\ lastSnapshot' = FALSE)]_vars

C6_OnlyGuardTearsDown ==
  [][(globalBrowser # 0 /\ globalBrowser' = 0)
     => (\/ \E r \in Calls : rq[r] = "closing" /\ rq'[r] = "done"
         \/ se.pc = "closing" /\ se'.pc # "closing"
         \/ \E h \in Calls : /\ pc[h] \in {"acqClose", "navClose"}
                             /\ pc'[h] \in {"acqLaunch", "navLaunch"})]_vars

\* C7: at no time are two handler executions in progress; an execution
\* abandoned by a guard timeout is not running while the next one runs.
C7_OneExecutionAtATime == Cardinality(Running) <= 1

C9_TeardownIdempotent ==
  [][\A r \in Calls :
       (/\ rq[r] = "racing" /\ rq'[r] # "racing"
        /\ res[r] \in {"none", "timeout"}
        /\ globalBrowser = 0 /\ globalPage = 0)
       => (/\ rq'[r] = "done"
           /\ resp'[r] = "timeoutPayload"
           /\ bstate' = bstate
           /\ bgClose' = bgClose
           /\ globalBrowser' = 0 /\ globalPage' = 0
           /\ lastSnapshot' = FALSE)]_vars

C9_TornDownTwice ==
  \E r, q \in Calls :
    /\ r < q
    /\ resp[r] = "timeoutPayload" /\ rpend[r] # 0 /\ bstate[rpend[r]] = "closed"
    /\ resp[q] = "timeoutPayload" /\ rpend[q] = 0 /\ InFlight(q)
    /\ globalBrowser = 0 /\ globalPage = 0 /\ lastSnapshot = FALSE

\* C10: once a timeout teardown has left the handles null they stay null
\* until the next invocation: the abandoned handler does not set them.
C10_HandlesStayNull ==
  [][(/\ globalBrowser = 0 /\ globalPage = 0
      /\ \E r \in Calls : /\ resp[r] = "timeoutPayload"
                          /\ \A q \in Calls : q > r => rq[q] = "idle")
     => (globalBrowser' = 0 /\ globalPage' = 0)]_vars

\* C11: the browser and page browser_navigate opened are still open and
\* stored as the session when it has returned, and a following tool call
\* that acquires its page (browser_snapshot, screenshot) operates on that
\* same browser and page.
C11_NavigatedPageIsCurrent ==
  solo =>
    \A g \in Calls :
      (g + 1 \in Calls /\ tool[g] = "navigate" /\ resp[g] = "result")
      => /\ tool[g + 1] = "none" =>
              /\ bstate[lb[g]] = "open"
              /\ globalBrowser = lb[g] /\ globalPage = lp[g]
         /\ (tool[g + 1] \in AcquireTools /\ lp[g + 1] # 0) =>
              (lb[g + 1] = lb[g] /\ lp[g + 1] = lp[g])

\* C12: every tool invocation that failed, the request timeout included, is
\* answered with a thrown error: a request is answered with a result only
\* when its handler resolved.
C12_FailuresAreThrown ==
  \A r \in Calls :
    /\ resp[r] \in {"none", "result", "error"}
    /\ resp[r] = "result" => res[r] = "ok"

\* C13: inside a tool handler a failed driver call is not retried: when
\* browser_navigate's page.goto fails, the handler issues no second goto and
\* its promise rejects with that failure.
C13_DriverFailureNotRetried ==
  [][\A h \in Calls :
       (pc[h] = "navGoto" /\ pc'[h] \notin {"navGoto", "navAfter"})
       => (pc'[h] = "done" /\ res'[h] \in ErrKinds)]_vars

\* C14: whenever acquire, after its launch, finds the browser handle or
\* the page handle null, it fails with its creation error and with no other
\* error, and it never returns a pair that contains a null handle.
C14_NullHandleIsCreationError ==
  [][\A h \in Calls :
       /\ (/\ pc[h] \in {"acqViewport", "acqInit", "acqHeaders"}
           /\ globalBrowser = 0 \/ globalPage = 0
           /\ pc'[h] = "done"
           /\ res'[h] \notin ErrKinds)
          => res'[h] = "creation"
       /\ (pc[h] = "acqHeaders" /\ pc'[h] = "useDriver")
          => (lb'[h] # 0 /\ lp'[h] # 0)]_vars

\* C15: a failure of close() during the teardown of safeExecute is logged
\* only: the step that ends the teardown keeps the attempt's error as the
\* last error and goes on to the backoff wait when attempts remain, or else
\* fails with that error, whether close() resolved or rejected.
C15_CloseFailureLoggedOnly ==
  [][(se.pc = "closing" /\ se'.pc # "closing")
     => /\ se'.lastError = se.lastError
        /\ se'.closeErrors \in {se.closeErrors, se.closeErrors + 1}
        /\ IF se.attempt < se.retries - 1
             THEN se'.pc = "backoff" /\ se'.attempt = se.attempt
             ELSE /\ se'.pc = "done" /\ se'.out = "thrown"
                  /\ se'.thrown.err = se.lastError]_vars

C15_RetriedAfterCloseFailure ==
  /\ se.closeErrors >= 1
  /\ se.starts >= 2
  /\ se.pc = "done" /\ se.out = "thrown"

\* C16: the round-robin counter always lies in 0..len(catalog)-1; a
\* non-random selection, in acquire or in browser_navigate, takes the
\* catalog entry at the counter's value and then advances the counter by one
\* modulo the catalog length; a random selection leaves the counter unchanged.
C16_RoundRobinCounter ==
  [][/\ currentProfileIndex' \in 0..(Len(browserProfiles) - 1)
     /\ \A h \in Calls :
          (ppc[h] # "selected" /\ ppc'[h] = "selected")
          => IF psel'[h].random
               THEN /\ currentProfileIndex' = currentProfileIndex
                    /\ psel'[h].profile = browserProfiles[psel'[h].index + 1]
               ELSE /\ psel'[h].index = currentProfileIndex
                    /\ psel'[h].profile = browserProfiles[currentProfileIndex + 1]
                    /\ currentProfileIndex' =
                         (currentProfileIndex + 1) % Len(browserProfiles)]_vars

C16_BothKindsSelected ==
  \E g, h \in Calls :
    /\ ppc[g] = "selected" /\ psel[g].random
    /\ ppc[h] = "selected" /\ ~psel[h].random
    /\ psel[h].index = Len(browserProfiles) - 1
    /\ currentProfileIndex = 0

\* C17: for every integer i, negative i and i beyond the catalog size
\* included, getProfileByIndex(i) is the catalog entry at i mod len(catalog),
\* a member of the catalog, and equals getProfileByIndex(i + len(catalog)).
C17_ProfileByIndexPeriodic ==
  qResult # "none" =>
    /\ qResult = browserProfiles[(qIndex % Len(browserProfiles)) + 1]
    /\ \E k \in 1..Len(browserProfiles) : qResult = browserProfiles[k]
    /\ qResult = getProfileByIndex(qIndex + Len(browserProfiles))

\* The non-random selections so far were given consecutive counter values
\* in turn: none was given twice in one round, none was passed over.
InTurn ==
  \A k \in 2..Len(pord) : pord[k] = (pord[k - 1] + 1) % Len(browserProfiles)

NonRandomSelected ==
  {h \in Calls : ppc[h] = "selected" /\ ~psel[h].random}

\* C18 as claimed, for an interleaving in which every concurrently
\* dispatched call has made a non-random selection: two of them were given
\* the same counter value or a counter value was passed over.
C18_CounterSkipsOrRepeats ==
  NonRandomSelected = Calls => ~InTurn

\* C18 as amended: in every interleaving of concurrently dispatched calls
\* the non-random selections are given the counter values in turn, each one
\* once, and the counter is the number of such selections modulo the
\* catalog length: the counter is read and advanced without an await in
\* between.
C18_CounterInTurn ==
  /\ InTurn
  /\ Len(pord) = Cardinality(NonRandomSelected)
  /\ Len(pord) > 0 =>
       currentProfileIndex = (pord[Len(pord)] + 1) % Len(browserProfiles)
  /\ \A g, h \in NonRandomSelected :
       (g # h /\ Len(pord) <= Len(browserProfiles))
       => psel[g].index # psel[h].index

C18_AllSelectedNonRandom ==
  /\ NonRandomSelected = Calls
  /\ \E g, h \in Calls :
       g < h /\ psel[h].index = Len(browserProfiles) - 1 /\ psel[g].index = 0

\* C19: for all integers min <= max humanDelay(min, max) suspends for a
\* duration d with min <= d <= max, and for min = max for exactly min.
C19_DelayWithinBounds ==
  dArgs.called =>
    /\ dDelay.kind = "fin" /\ dDelay.den = 1
    /\ dArgs.min <= dDelay.num /\ dDelay.num <= dArgs.max

\* C20: for every text and every initial content of the field, when
\* humanType has completed without error the field contains exactly the
\* text, whichever clearing path was taken (fill, triple click and
\* Backspace, or both failed) and whichever of keyboard.press and
\* element.type typed each character.
C20_FieldHoldsText ==
  ty.pc = "done" => field.content = ty.text

\* The warning of the inner catch, as it is logged.
ClearWarningEvent == [op |-> "warn", c |-> ""]

\* C21: when the select-all click or the Backspace of the fallback clearing
\* is rejected (the direct fill('') was rejected before it), humanType does
\* not fail: the warning is logged and the typing starts at the first
\* character of the text (or at the final pause of an empty text).
C21_ClearFailureWarnsAndTypes ==
  [][(ty.pc \in {"click", "backspace"} /\ ty'.pc \notin {"click", "backspace"})
       => /\ ty'.pc = IF Len(ty.text) >= 1 THEN "press" ELSE "finalDelay"
          /\ ty'.i = 1
          /\ ty'.text = ty.text
          /\ tlog' \in {tlog, Append(tlog, ClearWarningEvent)}
          /\ (ty.pc = "click" \/ (field.selected /\ field' = field))
               => tlog' = Append(tlog, ClearWarningEvent)]_vars

\* C21 witness: the clearing failed, the warning was logged and a text of
\* full length was typed to the end.
C21_TypedAfterClearFailure ==
  /\ ty.pc = "done"
  /\ Len(ty.text) = MaxLen
  /\ field.content # ty.text
  /\ \E k \in 1..Len(tlog) : tlog[k] = ClearWarningEvent

\* The injections and pauses of the log, in order.
KeyEvents == SelectSeq(tlog, LAMBDA e : e.op \in {"press", "type", "delay"})

\* C22: the injections and pauses alternate, the k-th injection is the
\* k-th character of the text, element.type injects a character only right
\* after keyboard.press rejected that character, keyboard.press injects it
\* otherwise, and when humanType is done every character was injected once
\* and followed by its pause.
C22_EachCharOnceInOrder ==
  /\ \A j \in 1..Len(KeyEvents) :
       /\ KeyEvents[j].c = ty.text[(j + 1) \div 2]
       /\ (j % 2 = 1) = (KeyEvents[j].op \in {"press", "type"})
  /\ \A k \in 1..Len(tlog) :
       /\ tlog[k].op = "type"
            => k > 1 /\ tlog[k - 1] = [op |-> "pressFail", c |-> tlog[k].c]
       /\ tlog[k].op = "press" => (k = 1 \/ tlog[k - 1].op # "pressFail")
       /\ tlog[k].op = "pressFail"
            => k = Len(tlog) \/ tlog[k + 1] = [op |-> "type", c |-> tlog[k].c]
  /\ Len(KeyEvents) <= 2 * Len(ty.text)
  /\ ty.pc = "done" => Len(KeyEvents) = 2 * Len(ty.text)

\* C22 witness: a text of full length was typed to the end, one character
\* by keyboard.press and one by element.type.
C22_TypedByBothPrimitives ==
  /\ ty.pc = "done"
  /\ Len(ty.text) = MaxLen
  /\ \E j, k \in 1..Len(tlog) : tlog[j].op = "press" /\ tlog[k].op = "type"

\* C23 (as stated): in one call of humanType, the pause after a character
\* of [\s,.?!;:] is at least 1.5 times the pause after any other character,
\* for every pair of variation draws and every typing speed.
C23_PauseCharDelayRatio ==
  \A j, k \in 1..Len(kd.chars) :
    (factor(kd.chars[j].char) = 2 /\ factor(kd.chars[k].char) = 1
      /\ kd.chars[j].pause.kind = "fin" /\ kd.chars[k].pause.kind = "fin")
      => 2 * kd.chars[j].pause.num * kd.chars[k].pause.den
           >= 3 * kd.chars[k].pause.num * kd.chars[j].pause.den

\* C24 (as stated): in humanMouseMovement the jitter of step 0 and of the
\* last step is zero, so that the first move is issued at the start point
\* and the last one at the target point, and no step has a larger jitter
\* factor than the step at the midpoint.
C24_EndpointJitterZero ==
  mv.pc \in {"move", "moveDelay"} =>
    /\ mv.i = 0
         => /\ mv.jitterX = [milli |-> 0, sinPi |-> 0]
            /\ mv.moveX = mv.startX * mv.steps
    /\ mv.i = mv.steps
         => /\ mv.jitterX = [milli |-> 0, sinPi |-> 0]
            /\ mv.moveX = mv.targetX * mv.steps
    /\ mv.jitterFactor.milli <= JitterFactor(mv.steps \div 2, mv.steps).milli

\* C25 (as stated): the number of steps drawn by humanMouseMovement ranges
\* over exactly 5..10 (each of these values is drawn for some value of
\* Math.random(), and no other value is), and every step issues one cursor
\* move followed by one pause.
C25_StepsFiveToTen ==
  mv.pc \in {"move", "moveDelay"} =>
    /\ mv.steps \in 5..10
    /\ \A n \in 5..10 : \E r \in MathRandom : MoveSteps(r) = n
    /\ Len(mlog) = 2 * mv.i + (IF mv.pc = "moveDelay" THEN 2 ELSE 1)
    /\ \A j \in 1..Len(mlog) : mlog[j] = IF j % 2 = 1 THEN "move" ELSE "delay"

\* The calls of a movement of n cursor moves: each move and its pause.
MovementLog(n) == [j \in 1..(2 * n) |-> IF j % 2 = 1 THEN "move" ELSE "delay"]

\* The cursor moves of humanMouseMovement when it has returned: steps + 1
\* with a bounding box, none without one.
MovesIssued == IF mv.steps = 0 THEN 0 ELSE mv.steps + 1

\* C28: humanClick issues, in this order, the calls of the movement, a
\* pause, one click and a pause: no click before the movement has returned
\* and the pause was issued, and nothing after the closing pause. Without a
\* bounding box the movement issues no cursor move and the click is still
\* issued once.
C28_ClickAfterMovementAndPause ==
  mv.caller = "humanClick" =>
    /\ mv.pc \in {"box", "move", "moveDelay"}
         => \A j \in 1..Len(mlog) : mlog[j] # "click"
    /\ mv.pc = "preClick" => mlog = MovementLog(MovesIssued) \o <<"delay">>
    /\ mv.pc = "click"
         => mlog = MovementLog(MovesIssued) \o <<"delay", "click">>
    /\ mv.pc \in {"postClick", "done"}
         => mlog = MovementLog(MovesIssued) \o <<"delay", "click", "delay">>
    /\ Cardinality({j \in 1..Len(mlog) : mlog[j] = "click"}) <= 1

\* C28 witness: humanClick returned after a movement of at least six moves.
C28_ClickedAfterMovement ==
  /\ mv.caller = "humanClick"
  /\ mv.pc = "done"
  /\ mv.steps >= 5
  /\ Len(mlog) >= 15

\* The absolute value of an integer.
Abs(n) == IF n < 0 THEN -n ELSE n

\* C26: a humanScroll that returns has issued between 2 and 4 scrollBy
\* calls, no call of it issues more than 4, and the magnitude of each is
\* between 0.75 and 1.25 times the viewport height, which is 800 when
\* page.viewportSize() is null.
C26_ScrollCountAndMagnitude ==
  LET height == IF sc.reported = 0 THEN 800 ELSE sc.reported
  IN  /\ sc.issued <= 4
      /\ sc.pc = "done" => sc.issued \in 2..4
      /\ sc.issued >= 1
           => /\ 3 * RDen * height <= Abs(sc.distance)
              /\ Abs(sc.distance) <= 5 * RDen * height

\* C26 witness: with no viewport size available humanScroll returned after
\* four scrolls, the last one upwards.
C26_ScrolledFourTimes ==
  /\ sc.pc = "done"
  /\ sc.reported = 0
  /\ sc.issued = 4
  /\ sc.distance < 0

\* C27: a call of randomMouseMovements ends (it returns, or it fails with
\* the error of a rejected page.mouse.move) for every duration; a new
\* iteration is entered only while the elapsed time is below the duration
\* and each iteration takes at least 50 ms, so at most one cursor move is
\* issued per 50 ms of the duration, and none for a duration <= 0.
C27_WanderTerminates ==
  /\ [](/\ wd.duration <= 0 => wd.moves = 0
        /\ wd.duration > 0 => 50 * (wd.moves - 1) < wd.duration
        /\ wd.elapsed >= 50 * (wd.moves - (IF wd.pc = "done" THEN 0 ELSE 1))
        /\ wd.pc = "done" => wd.elapsed >= wd.duration)
  /\ (wd.pc \in {"move", "delay"}) ~> (wd.pc \in {"done", "failed"})

\* C27 witness: randomMouseMovements returned after three cursor moves.
C27_WanderedThreeMoves ==
  /\ wd.pc = "done"
  /\ wd.moves = 3
  /\ wd.duration = MaxDuration

\* The errors whose message holds 'Таймаут' or 'timed out': the error of
\* the guard's timer and a driver error of class "timeout".
TimeoutSignature == {"guardTimeout", "timeout"}

StartsLogged(log) == SelectSeq(log, LAMBDA e : e[1] = "start")

\* C30: when fn resolves on attempt k before the timer of that attempt
\* fires, safeExecute returns the result of that attempt, fn has been
\* started exactly k times (once per attempt 1..k), and after the return
\* no attempt and no wait is started.
C30_ReturnsFirstSuccess ==
  [][/\ (se.pc = "racing" /\ res[se.attempt + 1] = "ok" /\ se' # se)
          => /\ se'.pc = "done" /\ se'.out = "ok"
             /\ se'.attempt = se.attempt
             /\ se'.starts = se.attempt + 1
             /\ Len(StartsLogged(slog')) = se.attempt + 1
             /\ \A j \in 1..(se.attempt + 1) :
                  StartsLogged(slog')[j] = <<"start", j>>
             /\ slog'[Len(slog')] = <<"start", se.attempt + 1>>
     /\ se.pc = "done" => (se' = se /\ slog' = slog)]_vars

\* C30 witness: the first attempt failed and the second one succeeded;
\* safeExecute returned after two starts.
C30_SucceededOnSecondAttempt ==
  /\ se.pc = "done" /\ se.out = "ok"
  /\ se.attempt = 1
  /\ se.starts = 2
  /\ res[2] = "ok"

\* C31 (as stated): with its timers firing, every call of safeExecute ends,
\* by a return or by a throw, after at most `retries` starts of fn, also
\* when fn never settles and when the browser does not answer the close()
\* of the timeout teardown.
C31_GuardEnds ==
  /\ [](se.starts <= IF se.retries > 0 THEN se.retries ELSE 0)
  /\ (se.pc # "idle") ~> (se.pc = "done")

\* C32: a call of safeExecute with retries <= 0 throws at once: fn is not
\* started, no handler position, handle, browser or snapshot changes, and
\* the call ends with the error 'Все попытки выполнения запроса неудачны'
\* and not with a result.
C32_NoRetriesFailsAtOnce ==
  [][(se.pc = "idle" /\ se'.pc # "idle" /\ se'.retries <= 0)
       => /\ se'.pc = "done" /\ se'.out = "thrown"
          /\ se'.thrown.err = <<"allFailed", 0>>
          /\ se'.starts = 0
          /\ slog' = slog
          /\ UNCHANGED <<progVars, hVars>>]_vars

\* C32 witness: safeExecute was called with a negative `retries` and has
\* thrown without a start of fn.
C32_ThrownWithoutStart ==
  /\ se.pc = "done" /\ se.out = "thrown"
  /\ se.retries < 0
  /\ se.starts = 0
  /\ Started = {}

\* C33 (as stated): whenever no handler execution is in progress and no
\* request is being answered, a browser handle that is set refers to a
\* browser that is open; screenshot, which closes its browser in its
\* finally, does not leave the handle at the closed browser.
C33_IdleHandleIsOpen ==
  (Running = {} /\ \A r \in Calls : rq[r] \in {"idle", "done"})
    => (globalBrowser # 0 => bstate[globalBrowser] = "open")

\* C34 (as stated): in every reachable state, also of requests dispatched
\* concurrently, a page handle that is set comes with a browser handle that
\* is set, and the page was opened from the browser the browser handle
\* refers to.
C34_PageOfCurrentBrowser ==
  globalPage # 0 => (globalBrowser # 0 /\ globalPage = globalBrowser)

\* The awaits of an acquisition after its browser was launched.
AfterLaunchPcs ==
  {"acqNewPage", "acqViewport", "acqInit", "acqHeaders", "navContext",
   "navNewPage"}

\* C35: when a handler fails at an await of its acquisition after its
\* browser was launched (handler h launches browser h), that browser is
\* closed or it is the browser the session's handle refers to, so that the
\* next acquire closes it.
C35_FailedAcquireLeaksNothing ==
  [][\A h \in Calls :
       (pc[h] \in AfterLaunchPcs /\ pc'[h] = "done" /\ res'[h] # "ok")
         => (bstate'[h] = "closed" \/ h \in bgClose' \/ globalBrowser' = h)]_vars

=============================================================================
